---- MODULE Spec2Model ----
(***************************************************************************)
(* Model of package idgen (idgen.go): the ID-generator interface, the      *)
(* primitive generators (constant, sequential, tstamp), the wrappers       *)
(* (overflowChecker, shifted) and the Snowflake composite.                 *)
(*                                                                         *)
(* An int64 is four 16-bit limbs, the least significant first, in two's    *)
(* complement: arithmetic wraps modulo 2^64 and the bit operators act      *)
(* exactly as Go's do on int64.                                            *)
(***************************************************************************)
EXTENDS Integers, Sequences, FiniteSets, TLC

\* ------------------------------------------------------------------ int64
\* Width of int64, the type of every ID and every count.
W == 64

\* An int64 is held as four 16-bit limbs, the least significant first.
LimbBits == 16

Base == 65536

RECURSIVE Pow2(_)
\* 2^k for 0 <= k <= 16
Pow2(k) == IF k = 0 THEN 1 ELSE 2 * Pow2(k - 1)

\* The int64 whose value is the natural number m (m < 2^31).
FromNat(m) == <<m % Base, (m \div Base) % Base, 0, 0>>

\* The natural number held by a non-negative int64 below 2^31.
ToNat(a) == a[1] + Base * a[2]

Zero == FromNat(0)
One == FromNat(1)

RECURSIVE And16(_, _)
\* x & y on one limb
And16(x, y) ==
    IF x = 0 \/ y = 0 THEN 0
    ELSE (x % 2) * (y % 2) + 2 * And16(x \div 2, y \div 2)

\* a & b
BAnd(a, b) == <<And16(a[1], b[1]), And16(a[2], b[2]), And16(a[3], b[3]), And16(a[4], b[4])>>

\* a | b
BOr(a, b) ==
    <<a[1] + b[1] - And16(a[1], b[1]), a[2] + b[2] - And16(a[2], b[2]),
      a[3] + b[3] - And16(a[3], b[3]), a[4] + b[4] - And16(a[4], b[4])>>

\* ^a
BNot(a) == <<Base - 1 - a[1], Base - 1 - a[2], Base - 1 - a[3], Base - 1 - a[4]>>

\* a + b, wrapping modulo 2^64
Add(a, b) ==
    LET s1 == a[1] + b[1]
        s2 == a[2] + b[2] + (s1 \div Base)
        s3 == a[3] + b[3] + (s2 \div Base)
        s4 == a[4] + b[4] + (s3 \div Base)
    IN <<s1 % Base, s2 % Base, s3 % Base, s4 % Base>>

\* a - b, wrapping modulo 2^64
Sub(a, b) == Add(a, Add(BNot(b), One))

\* Limb i of a, zero below the least significant limb.
LimbLow(a, i) == IF i >= 1 /\ i <= 4 THEN a[i] ELSE 0

\* a << k for a shift count k >= 0 (a count of 64 or more gives 0)
Shl(a, k) ==
    LET q == k \div LimbBits
        s == k % LimbBits
        limb(i) == ((LimbLow(a, i - q) * Pow2(s)) % Base)
                   + (LimbLow(a, i - q - 1) \div Pow2(LimbBits - s))
    IN <<limb(1), limb(2), limb(3), limb(4)>>

\* a is negative (bit 63 is set)
Negative(a) == a[4] >= Base \div 2

\* Limb i of a, the sign extended above the most significant limb.
LimbHigh(a, i) == IF i <= 4 THEN a[i] ELSE IF Negative(a) THEN Base - 1 ELSE 0

\* a >> k on a signed int64, 0 <= k < 64 (the sign bit is copied in)
Shr(a, k) ==
    LET q == k \div LimbBits
        s == k % LimbBits
        limb(i) == (LimbHigh(a, i + q) \div Pow2(s))
                   + ((LimbHigh(a, i + q + 1) % Pow2(s)) * Pow2(LimbBits - s))
    IN <<limb(1), limb(2), limb(3), limb(4)>>

\* a < b as unsigned 64-bit numbers
ULt(a, b) ==
    \/ a[4] < b[4]
    \/ a[4] = b[4] /\ a[3] < b[3]
    \/ a[4] = b[4] /\ a[3] = b[3] /\ a[2] < b[2]
    \/ a[4] = b[4] /\ a[3] = b[3] /\ a[2] = b[2] /\ a[1] < b[1]

\* a < b as signed int64
Lt(a, b) == IF Negative(a) # Negative(b) THEN Negative(a) ELSE ULt(a, b)

Le(a, b) == a = b \/ Lt(a, b)

\* int64(-(1 << 63)), the seed of NewNegSequential
MinInt64 == Shl(One, W - 1)

MaxInt64 == BNot(MinInt64)

\* ------------------------------------------------------------------ errors
\* The nil error.
Nil == [kind |-> "nil", gen |-> "", arg |-> Zero, got |-> Zero]

\* fmt.Errorf("%T.NewIDs() overflow %b", o.gen, bits)
OverflowError(gen, bits) ==
    [kind |-> "overflow", gen |-> gen.type, arg |-> bits, got |-> Zero]

\* fmt.Errorf("%T/%v.NewIDs() supports count=%v, got %v", gen, gen, max, n)
RangeError(gen, max, n) ==
    [kind |-> "range", gen |-> gen.type, arg |-> max, got |-> n]

\* A count check that refuses only the counts below max.
checkNAtLeastOne(gen, max, n) == IF Lt(n, max) THEN RangeError(gen, max, n) ELSE Nil

\* if n != max { return fmt.Errorf(...) }; return nil
checkNIsOne(gen, max, n) == IF n # max THEN RangeError(gen, max, n) ELSE Nil

\* ------------------------------------------------------------------ generators
\* A generator is a record tagged with its Go type.
constant(v) == [type |-> "constant", c |-> v]

\* &sequential{}: the counter value itself is program state (variable value).
sequential == [type |-> "sequential"]

NewTimestamp == [type |-> "tstamp"]

\* The test generator that returns its count.
repeat == [type |-> "repeat"]

\* The test generator that always fails with the given error.
broken(e) == [type |-> "broken", error |-> e]

\* The mask of a checker built with the field one bit too wide.
OverflowBitsWide(allowedBits) == BNot(Sub(Shl(One, allowedBits + 1), One))

\* ^(1<<allowedBits - 1)
OverflowBits(allowedBits) == BNot(Sub(Shl(One, allowedBits), One))

NewOverflowChecker(allowedBits, gen) ==
    [type |-> "overflowChecker", gen |-> gen, overflowBits |-> OverflowBits(allowedBits)]

shifted(gen, bits) == [type |-> "shifted", gen |-> gen, bits |-> bits]

\* A shift that is one bit short.
ShiftShort(v, bits) == IF bits = 0 THEN Shl(v, 1) ELSE Shl(v, bits - 1)

\* v << s.bits
ShiftLeft(v, bits) == Shl(v, bits)

\* The result of a call: the value, the error, and the sequential counter after it.
Ret(v, err, val) == [v |-> v, err |-> err, value |-> val]

\* An add that returns the counter as it was before the addition.
AddFetchOld(val, n) == Ret(val, Nil, Add(val, n))

\* atomic.AddInt64(&s.value, n): the new value is stored and returned.
AddInt64(val, n) == Ret(Add(val, n), Nil, Add(val, n))

RECURSIVE NewIDs(_, _, _, _)
\* g.NewIDs(n) with the clock reading now (milliseconds) and the sequential
\* counter at val.
NewIDs(g, n, now, val) ==
    CASE g.type = "constant" ->
            IF checkNIsOne(g, One, n) # Nil
            THEN Ret(Zero, checkNIsOne(g, One, n), val)
            ELSE Ret(g.c, Nil, val)
      [] g.type = "tstamp" ->
            IF checkNIsOne(g, One, n) # Nil
            THEN Ret(Zero, checkNIsOne(g, One, n), val)
            ELSE Ret(now, Nil, val)
      [] g.type = "sequential" -> AddInt64(val, n)
      [] g.type = "repeat" -> Ret(n, Nil, val)
      [] g.type = "broken" -> Ret(Zero, g.error, val)
      [] g.type = "overflowChecker" ->
            LET r == NewIDs(g.gen, n, now, val)
                bits == BAnd(r.v, g.overflowBits)
            IN IF r.err # Nil THEN Ret(Zero, r.err, r.value)
               ELSE IF bits # Zero THEN Ret(Zero, OverflowError(g.gen, bits), r.value)
               ELSE Ret(r.v, Nil, r.value)
      [] g.type = "shifted" ->
            LET r == NewIDs(g.gen, n, now, val)
            IN IF r.err # Nil THEN Ret(Zero, r.err, r.value)
               ELSE Ret(ShiftLeft(r.v, g.bits), Nil, r.value)

\* Field widths and shifts of NewSnowflake.
SeqBits == 12
NodeBits == 10
NodeShift == 12
TstampBits == 41
TstampShift == 22

\* A Snowflake whose node field is shifted into place without being checked.
NewSnowflakeUnchecked(nodeMask) ==
    [seqChecker |-> NewOverflowChecker(SeqBits, sequential),
     constant |-> shifted(constant(nodeMask), NodeShift),
     tstamp |-> shifted(NewOverflowChecker(TstampBits, NewTimestamp), TstampShift)]

\* The sub-generators NewSnowflake(nodeMask) builds.
NewSnowflake(nodeMask) ==
    [seqChecker |-> NewOverflowChecker(SeqBits, sequential),
     constant |-> shifted(NewOverflowChecker(NodeBits, constant(nodeMask)), NodeShift),
     tstamp |-> shifted(NewOverflowChecker(TstampBits, NewTimestamp), TstampShift)]


\* ------------------------------------------------------------------ bounds
\* Number of concurrent callers.
NumProcs == 2
\* Number of NewIDs calls in one run.
MaxCalls == 3

Procs == 1 .. NumProcs

\* Counts a caller may pass: zero, the low end, both sides of the 12-bit field.
Counts == {FromNat(0), FromNat(1), FromNat(4096), FromNat(4097)}

\* The counts of the Snowflake contract, 1..4096, at both ends of the range.
ValidCounts == {FromNat(1), FromNat(4095), FromNat(4096)}

\* Millisecond clock readings: the epoch, ordinary ticks, both sides of the 41-bit field.
ClockVals == {FromNat(0), FromNat(1),
              Sub(Shl(One, TstampBits), One), Shl(One, TstampBits)}

\* Node identifiers handed to NewSnowflake: inside 0..1023, just outside, negative.
NodeIDs == {FromNat(3), FromNat(1023), FromNat(1024), Sub(Zero, One)}

\* ------------------------------------------------------------------ state
VARIABLES
    nodeID,         \* the nodeMask argument of NewSnowflake
    lastTimestamp,  \* snowflake.lastTimestamp
    value,          \* sequential.value
    seed,           \* the value the sequential counter was constructed with
    mutex,          \* snowflake.Mutex: 0 when free, else the caller holding it
    clock,          \* time.Now().UnixNano() / int64(time.Millisecond)
    pc,             \* where each caller is inside NewIDs
    loc,            \* each caller's argument and local variables
    history,        \* the calls that returned, in the order they returned
    arg,            \* the wrapper under test and its inputs
    out             \* what the wrapper under test returned

vars == <<nodeID, lastTimestamp, value, seed, mutex, clock, pc, loc, history, arg, out>>

\* The locals of snowflake.NewIDs (n, tstamp, nodeMask, seqNum, err), the value
\* returned, the clock reading taken, which branch was taken, whether the lock
\* was held when the caller arrived, and the instance state seen when the lock
\* was taken.
Loc0 ==
    [n |-> Zero, reading |-> Zero, tstamp |-> Zero, seqNum |-> Zero, nodeMask |-> Zero,
     id |-> Zero, err |-> Nil, newTick |-> FALSE, blocked |-> FALSE,
     last0 |-> Zero, value0 |-> Zero]

NoArg == [wrapper |-> "none", bits |-> 0, gen |-> repeat, n |-> Zero]
NoOut == [done |-> FALSE, v |-> Zero, err |-> Nil]

\* The number of calls begun so far.
Started == Len(history) + Cardinality({q \in Procs : pc[q] # "idle"})

\* ------------------------------------------------------------------ Snowflake
\* A Snowflake instance right after NewSnowflake(nodeID).
Init ==
    /\ nodeID \in NodeIDs
    /\ lastTimestamp = Zero
    /\ value = Zero
    /\ seed = Zero
    /\ mutex = 0
    /\ clock = Zero
    /\ pc = [p \in Procs |-> "idle"]
    /\ loc = [p \in Procs |-> Loc0]
    /\ history = << >>
    /\ arg = NoArg
    /\ out = NoOut

\* A caller enters snowflake.NewIDs(n).
Call(p, n) ==
    /\ pc[p] = "idle"
    /\ Started < MaxCalls
    /\ pc' = [pc EXCEPT ![p] = "lock"]
    /\ loc' = [loc EXCEPT ![p] = [Loc0 EXCEPT !.n = n, !.blocked = (mutex # 0)]]
    /\ UNCHANGED <<nodeID, lastTimestamp, value, seed, mutex, clock, history, arg, out>>

\* s.Mutex.Lock()
Lock(p) ==
    /\ pc[p] = "lock"
    /\ mutex = 0
    /\ mutex' = p
    /\ pc' = [pc EXCEPT ![p] = "tstamp"]
    /\ loc' = [loc EXCEPT ![p].last0 = lastTimestamp, ![p].value0 = value]
    /\ UNCHANGED <<nodeID, lastTimestamp, value, seed, clock, history, arg, out>>

\* tstamp, err = s.tstamp.NewIDs(1): time.Now() reads the machine clock, which has
\* moved on to some millisecond not before the last one read.
ReadTstamp(p) ==
    /\ pc[p] = "tstamp"
    /\ \E t \in ClockVals :
        /\ Le(clock, t)
        /\ clock' = t
        /\ LET r == NewIDs(NewSnowflake(nodeID).tstamp, One, t, value)
           IN IF r.err # Nil
              THEN /\ pc' = [pc EXCEPT ![p] = "ret"]
                   /\ loc' = [loc EXCEPT ![p].reading = t, ![p].err = r.err]
              ELSE /\ pc' = [pc EXCEPT ![p] = "seq"]
                   /\ loc' = [loc EXCEPT ![p].reading = t, ![p].tstamp = r.v]
    /\ UNCHANGED <<nodeID, lastTimestamp, value, seed, mutex, history, arg, out>>

\* A Sequence step that restarts the sequence on every call, as if each call
\* were the first of its millisecond.
SequenceAlwaysReset(p) ==
    /\ pc[p] = "seq"
    /\ value' = Sub(loc[p].n, One)
    /\ lastTimestamp' = loc[p].tstamp
    /\ pc' = [pc EXCEPT ![p] = "node"]
    /\ loc' = [loc EXCEPT ![p].seqNum = Sub(loc[p].n, One), ![p].newTick = TRUE]
    /\ UNCHANGED <<nodeID, seed, mutex, clock, history, arg, out>>

\* A Sequence step that notes the new millisecond but lets the counter run on
\* from where the previous millisecond left it.
SequenceKeepsCounter(p) ==
    /\ pc[p] = "seq"
    /\ LET r == NewIDs(NewSnowflake(nodeID).seqChecker, loc[p].n, clock, value)
       IN /\ value' = r.value
          /\ lastTimestamp' = loc[p].tstamp
          /\ IF r.err # Nil
             THEN /\ pc' = [pc EXCEPT ![p] = "ret"]
                  /\ loc' = [loc EXCEPT ![p].err = r.err]
             ELSE /\ pc' = [pc EXCEPT ![p] = "node"]
                  /\ loc' = [loc EXCEPT ![p].seqNum = r.v,
                                          ![p].newTick = (loc[p].tstamp # lastTimestamp)]
    /\ UNCHANGED <<nodeID, seed, mutex, clock, history, arg, out>>

\* if tstamp != s.lastTimestamp { reset } else if seqNum, err = s.seqChecker.NewIDs(n)
Sequence(p) ==
    /\ pc[p] = "seq"
    /\ IF loc[p].tstamp # lastTimestamp
       THEN /\ value' = Sub(loc[p].n, One)
            /\ lastTimestamp' = loc[p].tstamp
            /\ pc' = [pc EXCEPT ![p] = "node"]
            /\ loc' = [loc EXCEPT ![p].seqNum = Sub(loc[p].n, One), ![p].newTick = TRUE]
       ELSE LET r == NewIDs(NewSnowflake(nodeID).seqChecker, loc[p].n, clock, value)
            IN /\ value' = r.value
               /\ lastTimestamp' = lastTimestamp
               /\ IF r.err # Nil
                  THEN /\ pc' = [pc EXCEPT ![p] = "ret"]
                       /\ loc' = [loc EXCEPT ![p].err = r.err]
                  ELSE /\ pc' = [pc EXCEPT ![p] = "node"]
                       /\ loc' = [loc EXCEPT ![p].seqNum = r.v]
    /\ UNCHANGED <<nodeID, seed, mutex, clock, history, arg, out>>

\* A node step that reports a failure of the node field as an error of its own
\* in place of the one the inner checker produced.
ReadNodeRewrapped(p) ==
    /\ pc[p] = "node"
    /\ LET r == NewIDs(NewSnowflake(nodeID).constant, One, clock, value)
       IN IF r.err # Nil
          THEN loc' = [loc EXCEPT ![p].err = [r.err EXCEPT !.gen = "snowflake"]]
          ELSE loc' = [loc EXCEPT ![p].nodeMask = r.v,
                                  ![p].id = BOr(BOr(loc[p].tstamp, r.v), loc[p].seqNum)]
    /\ pc' = [pc EXCEPT ![p] = "ret"]
    /\ UNCHANGED <<nodeID, lastTimestamp, value, seed, mutex, clock, history, arg, out>>

\* nodeMask, err = s.constant.NewIDs(1); return tstamp | nodeMask | seqNum, nil
ReadNode(p) ==
    /\ pc[p] = "node"
    /\ LET r == NewIDs(NewSnowflake(nodeID).constant, One, clock, value)
       IN IF r.err # Nil
          THEN loc' = [loc EXCEPT ![p].err = r.err]
          ELSE loc' = [loc EXCEPT ![p].nodeMask = r.v,
                                  ![p].id = BOr(BOr(loc[p].tstamp, r.v), loc[p].seqNum)]
    /\ pc' = [pc EXCEPT ![p] = "ret"]
    /\ UNCHANGED <<nodeID, lastTimestamp, value, seed, mutex, clock, history, arg, out>>

\* A return that releases the mutex only on the success path.
UnlockOnSuccess(p) ==
    /\ pc[p] = "ret"
    /\ mutex' = IF loc[p].err = Nil THEN 0 ELSE mutex
    /\ history' = Append(history,
            [n |-> loc[p].n, reading |-> loc[p].reading, tstamp |-> loc[p].tstamp,
             seqNum |-> loc[p].seqNum, id |-> loc[p].id, err |-> loc[p].err,
             newTick |-> loc[p].newTick, blocked |-> loc[p].blocked,
             last0 |-> loc[p].last0, value0 |-> loc[p].value0])
    /\ pc' = [pc EXCEPT ![p] = "idle"]
    /\ loc' = [loc EXCEPT ![p] = Loc0]
    /\ UNCHANGED <<nodeID, lastTimestamp, value, seed, clock, arg, out>>

\* defer s.Mutex.Unlock(): the call returns (id, err) to its caller.
Unlock(p) ==
    /\ pc[p] = "ret"
    /\ mutex' = 0
    /\ history' = Append(history,
            [n |-> loc[p].n, reading |-> loc[p].reading, tstamp |-> loc[p].tstamp,
             seqNum |-> loc[p].seqNum, id |-> loc[p].id, err |-> loc[p].err,
             newTick |-> loc[p].newTick, blocked |-> loc[p].blocked,
             last0 |-> loc[p].last0, value0 |-> loc[p].value0])
    /\ pc' = [pc EXCEPT ![p] = "idle"]
    /\ loc' = [loc EXCEPT ![p] = Loc0]
    /\ UNCHANGED <<nodeID, lastTimestamp, value, seed, clock, arg, out>>

\* Concurrent callers of one Snowflake instance, any count.
Next ==
    \/ \E p \in Procs, n \in Counts : Call(p, n)
    \/ \E p \in Procs : Lock(p)
    \/ \E p \in Procs : ReadTstamp(p)
    \/ \E p \in Procs : Sequence(p)
    \/ \E p \in Procs : ReadNode(p)
    \/ \E p \in Procs : Unlock(p)

Spec == Init /\ [][Next]_vars

\* Concurrent callers of one Snowflake instance, every count within 1..4096.
NextValid ==
    \/ \E p \in Procs, n \in ValidCounts : Call(p, n)
    \/ \E p \in Procs : Lock(p)
    \/ \E p \in Procs : ReadTstamp(p)
    \/ \E p \in Procs : Sequence(p)
    \/ \E p \in Procs : ReadNode(p)
    \/ \E p \in Procs : Unlock(p)

SpecValid == Init /\ [][NextValid]_vars

\* The steps a caller takes between taking the mutex and returning.
Inside == {"tstamp", "seq", "node"}

\* A caller inside NewIDs keeps running: a goroutine that can take the free
\* mutex is eventually scheduled, and so is one that can return (the deferred
\* Unlock). The straight-line steps in between (clock read, sequence, node
\* read) are enabled exactly while pc[p] is in Inside and each of them moves
\* pc[p] on, so weak fairness of those steps is that a caller is not inside
\* forever. Nothing obliges a caller to start a call.
Fairness ==
    \A p \in Procs :
        /\ WF_vars(Lock(p))
        /\ WF_vars(Unlock(p))
        /\ []<>(pc[p] \notin Inside)

FairSpec == Init /\ [][Next]_vars /\ Fairness

\* tstamp, err = s.tstamp.NewIDs(1) on the wall clock as it is: time.Now() gives
\* wall-clock time, which may have been set back since the last reading.
ReadTstampWall(p) ==
    /\ pc[p] = "tstamp"
    /\ \E t \in ClockVals :
        /\ clock' = t
        /\ LET r == NewIDs(NewSnowflake(nodeID).tstamp, One, t, value)
           IN IF r.err # Nil
              THEN /\ pc' = [pc EXCEPT ![p] = "ret"]
                   /\ loc' = [loc EXCEPT ![p].reading = t, ![p].err = r.err]
              ELSE /\ pc' = [pc EXCEPT ![p] = "seq"]
                   /\ loc' = [loc EXCEPT ![p].reading = t, ![p].tstamp = r.v]
    /\ UNCHANGED <<nodeID, lastTimestamp, value, seed, mutex, history, arg, out>>

\* Concurrent callers of one Snowflake instance, every count within 1..4096, on
\* a wall clock that may step back.
NextWall ==
    \/ \E p \in Procs, n \in ValidCounts : Call(p, n)
    \/ \E p \in Procs : Lock(p)
    \/ \E p \in Procs : ReadTstampWall(p)
    \/ \E p \in Procs : Sequence(p)
    \/ \E p \in Procs : ReadNode(p)
    \/ \E p \in Procs : Unlock(p)

SpecWall == Init /\ [][NextWall]_vars

\* Counts that exhaust a millisecond, and the largest int64, which wraps the counter.
TickCounts == {One, FromNat(4096), MaxInt64}

\* Concurrent callers of one Snowflake instance asking for one ID, a whole
\* millisecond's worth, or the largest count an int64 can hold.
NextTick ==
    \/ \E p \in Procs, n \in TickCounts : Call(p, n)
    \/ \E p \in Procs : Lock(p)
    \/ \E p \in Procs : ReadTstamp(p)
    \/ \E p \in Procs : Sequence(p)
    \/ \E p \in Procs : ReadNode(p)
    \/ \E p \in Procs : Unlock(p)

SpecTick == Init /\ [][NextTick]_vars


\* ------------------------------------------------------------------ sequential
\* Counts passed to a sequential counter: small ones and the largest int64.
SeqCounts == {FromNat(1), FromNat(2), MaxInt64}

\* NewSequential() starts at 0, NewNegSequential() at the lowest int64.
Seeds == {Zero, MinInt64}

\* A sequential counter right after NewSequential() or NewNegSequential().
InitSeq ==
    /\ seed \in Seeds
    /\ value = seed
    /\ nodeID = Zero
    /\ lastTimestamp = Zero
    /\ mutex = 0
    /\ clock = Zero
    /\ pc = [p \in Procs |-> "idle"]
    /\ loc = [p \in Procs |-> Loc0]
    /\ history = << >>
    /\ arg = NoArg
    /\ out = NoOut

\* A caller enters sequential.NewIDs(n); value0 is the counter as it stands then.
SeqCall(p, n) ==
    /\ pc[p] = "idle"
    /\ Started < MaxCalls
    /\ pc' = [pc EXCEPT ![p] = "add"]
    /\ loc' = [loc EXCEPT ![p] = [Loc0 EXCEPT !.n = n, !.value0 = value]]
    /\ UNCHANGED <<nodeID, lastTimestamp, value, seed, mutex, clock, history, arg, out>>

\* An add done as a separate load and store: the sum is formed from the value
\* loaded on entry.
SeqAddStale(p) ==
    /\ pc[p] = "add"
    /\ LET r == NewIDs(sequential, loc[p].n, clock, loc[p].value0)
       IN /\ value' = r.value
          /\ history' = Append(history,
                [n |-> loc[p].n, reading |-> Zero, tstamp |-> Zero,
                 seqNum |-> Zero, id |-> r.v, err |-> r.err, newTick |-> FALSE,
                 blocked |-> FALSE, last0 |-> Zero, value0 |-> loc[p].value0])
    /\ pc' = [pc EXCEPT ![p] = "idle"]
    /\ loc' = [loc EXCEPT ![p] = Loc0]
    /\ UNCHANGED <<nodeID, lastTimestamp, seed, mutex, clock, arg, out>>

\* return atomic.AddInt64(&s.value, n), nil: one atomic step, then the return.
SeqAdd(p) ==
    /\ pc[p] = "add"
    /\ LET r == NewIDs(sequential, loc[p].n, clock, value)
       IN /\ value' = r.value
          /\ history' = Append(history,
                [n |-> loc[p].n, reading |-> Zero, tstamp |-> Zero,
                 seqNum |-> Zero, id |-> r.v, err |-> r.err, newTick |-> FALSE,
                 blocked |-> FALSE, last0 |-> Zero, value0 |-> loc[p].value0])
    /\ pc' = [pc EXCEPT ![p] = "idle"]
    /\ loc' = [loc EXCEPT ![p] = Loc0]
    /\ UNCHANGED <<nodeID, lastTimestamp, seed, mutex, clock, arg, out>>

\* Concurrent callers of one sequential counter.
NextSeq ==
    \/ \E p \in Procs, n \in SeqCounts : SeqCall(p, n)
    \/ \E p \in Procs : SeqAdd(p)

SpecSeq == InitSeq /\ [][NextSeq]_vars

\* ------------------------------------------------------------------ wrappers
\* Values on both sides of every field width, and negative ones.
PureVals ==
    {Shl(One, k) : k \in 0 .. (W - 1)}
        \cup {Sub(Shl(One, k), One) : k \in 0 .. (W - 1)}
        \cup {Sub(Zero, One), Sub(Zero, FromNat(2)), Add(MinInt64, One)}

\* Widths given to NewOverflowChecker: every width of the int64, and 64.
CheckerBits == 0 .. W

\* Shift counts given to shifted: none, one, the Snowflake shifts, the top bit,
\* the width and the largest byte.
ShiftBits == {0, 1, NodeShift, TstampShift, W - 1, W, 255}

\* errors.New("broken ID generator is broken")
BrokenError == [kind |-> "broken", gen |-> "broken", arg |-> Zero, got |-> Zero]

\* The wrapped generators: repeat returns its count, constant(v) returns v for
\* count 1 and refuses other counts, the clock returns its reading for
\* count 1 and refuses other counts, broken fails for every count.
PureInner ==
    {[gen |-> repeat, n |-> v] : v \in PureVals}
        \cup {[gen |-> constant(v), n |-> One] : v \in PureVals}
        \cup {[gen |-> constant(FromNat(103)), n |-> n] :
                n \in {Zero, FromNat(2), Sub(Zero, One)}}
        \cup {[gen |-> NewTimestamp, n |-> n] :
                n \in {Zero, One, FromNat(2), Sub(Zero, One)}}
        \cup {[gen |-> broken(BrokenError), n |-> FromNat(n)] : n \in 0 .. 4}

\* Counts given to a generator called on its own: 1, its neighbours, a negative one.
PlainCounts == {Zero, One, FromNat(2), FromNat(4096), Sub(Zero, One), MinInt64}

\* The generators called on their own: constant(v) and the clock.
PlainArgs ==
    {[wrapper |-> "plain", bits |-> 0, gen |-> g, n |-> n] :
        g \in {constant(FromNat(103)), constant(Zero), constant(Sub(Zero, One)),
                NewTimestamp},
        n \in PlainCounts}

PureArgs ==
    {[wrapper |-> "overflowChecker", bits |-> b, gen |-> i.gen, n |-> i.n] :
        b \in CheckerBits, i \in PureInner}
        \cup {[wrapper |-> "shifted", bits |-> b, gen |-> i.gen, n |-> i.n] :
                b \in ShiftBits, i \in PureInner}
        \cup PlainArgs

\* A wrapper built around a generator, not yet called.
InitPure ==
    /\ arg \in PureArgs
    /\ out = NoOut
    /\ nodeID = Zero
    /\ lastTimestamp = Zero
    /\ value = Zero
    /\ seed = Zero
    /\ mutex = 0
    /\ clock \in ClockVals
    /\ pc = [p \in Procs |-> "idle"]
    /\ loc = [p \in Procs |-> Loc0]
    /\ history = << >>

\* NewOverflowChecker(bits, gen).NewIDs(n)
CallOverflowChecker ==
    /\ arg.wrapper = "overflowChecker"
    /\ ~out.done
    /\ LET r == NewIDs(NewOverflowChecker(arg.bits, arg.gen), arg.n, clock, value)
       IN out' = [done |-> TRUE, v |-> r.v, err |-> r.err]
    /\ UNCHANGED <<nodeID, lastTimestamp, value, seed, mutex, clock, pc, loc, history, arg>>

\* shifted{gen, bits}.NewIDs(n)
CallShifted ==
    /\ arg.wrapper = "shifted"
    /\ ~out.done
    /\ LET r == NewIDs(shifted(arg.gen, arg.bits), arg.n, clock, value)
       IN out' = [done |-> TRUE, v |-> r.v, err |-> r.err]
    /\ UNCHANGED <<nodeID, lastTimestamp, value, seed, mutex, clock, pc, loc, history, arg>>

\* constant(v).NewIDs(n) or NewTimestamp().NewIDs(n), with the clock at its reading.
CallPlain ==
    /\ arg.wrapper = "plain"
    /\ ~out.done
    /\ LET r == NewIDs(arg.gen, arg.n, clock, value)
       IN out' = [done |-> TRUE, v |-> r.v, err |-> r.err]
    /\ UNCHANGED <<nodeID, lastTimestamp, value, seed, mutex, clock, pc, loc, history, arg>>

NextPure == CallOverflowChecker \/ CallShifted \/ CallPlain

SpecPure == InitPure /\ [][NextPure]_vars

\* ------------------------------------------------------------------ errors
\* Either a Snowflake instance with its concurrent callers, or a wrapper around
\* a generator: the places an error of an inner generator passes through.
InitErr == Init \/ InitPure

NextErr == (arg.wrapper = "none" /\ Next) \/ NextPure

SpecErr == InitErr /\ [][NextErr]_vars


\* ------------------------------------------------------------------ properties
\* The call returned an ID.
Ok(h) == h.err = Nil

\* The first ID of the batch the call reserved: id - (n - 1).
FirstID(h) == Sub(h.id, Sub(h.n, One))

\* The batches [id - (n - 1), id] of two calls have no ID in common.
Disjoint(g, h) == Lt(g.id, FirstID(h)) \/ Lt(h.id, FirstID(g))

Calls == 1 .. Len(history)

\* C1: with a clock that never goes back and every count within 1..4096, no
\* ID is issued twice by one Snowflake instance, whatever the interleaving of
\* its callers: the batches of any two successful calls are disjoint.
C1_NoIDIssuedTwice ==
    \A i, j \in Calls :
        (i < j /\ Ok(history[i]) /\ Ok(history[j])) => Disjoint(history[i], history[j])

\* Two callers were inside NewIDs at once (the second found the lock held), and
\* both returned an ID for the same millisecond.
C1_Witness ==
    \E i, j \in Calls :
        /\ i < j
        /\ Ok(history[i]) /\ Ok(history[j])
        /\ history[j].blocked
        /\ history[i].reading = history[j].reading
        /\ history[j].n = FromNat(4095)

RECURSIVE TickTotal(_, _)
\* The number of IDs handed out by the first k calls for the clock reading t.
TickTotal(t, k) ==
    IF k = 0 THEN 0
    ELSE TickTotal(t, k - 1)
         + (IF Ok(history[k]) /\ history[k].reading = t THEN ToNat(history[k].n) ELSE 0)

\* C2: the counts of the successful calls made during one clock tick, the first
\* call of the tick included, never sum to more than 4096: the call that would
\* push the tick's total past 4096 returns an error.
C2_TickTotalAtMost4096 ==
    \A k \in Calls :
        Ok(history[k]) => TickTotal(history[k].reading, k) <= Pow2(SeqBits)

\* C3: every ID returned decomposes into its three fields: id >> 22 is the clock
\* reading of the call, (id >> 12) & 1023 is the nodeID given to NewSnowflake,
\* id & 4095 is the call's sequence value, which is within 0..4095, and the OR of
\* the three fields equals their sum.
C3_FieldsRecovered ==
    \A k \in Calls :
        Ok(history[k]) =>
            LET h == history[k]
            IN /\ Shr(h.id, TstampShift) = h.reading
               /\ BAnd(Shr(h.id, NodeShift), Sub(Shl(One, NodeBits), One)) = nodeID
               /\ BAnd(h.id, Sub(Shl(One, SeqBits), One)) = h.seqNum
               /\ ~Negative(h.seqNum) /\ Lt(h.seqNum, Shl(One, SeqBits))
               /\ h.id = Add(Add(h.tstamp, Shl(nodeID, NodeShift)), h.seqNum)

\* C4: a Snowflake NewIDs call that returns an error leaves the instance as it
\* found it: lastTimestamp and the sequence counter are what they were when the
\* call took the lock.
C4_ErrorLeavesStateUnchanged ==
    \A p \in Procs :
        (pc[p] = "ret" /\ loc[p].err # Nil) =>
            (lastTimestamp = loc[p].last0 /\ value = loc[p].value0)

\* C5: every ID a Snowflake NewIDs call returns is non-negative (bit 63 is zero),
\* for every count the call accepts and every clock reading.
C5_IDNeverNegative ==
    \A k \in Calls : Ok(history[k]) => ~Negative(history[k].id)

\* The nodeID given to NewSnowflake is within 0..1023.
NodeInRange == ~Negative(nodeID) /\ Lt(nodeID, FromNat(1024))

\* C6: construction accepts every nodeID; with a nodeID outside 0..1023 every
\* NewIDs call returns an overflow error and no ID, and with a nodeID within
\* 0..1023 no call fails on the node field.
C6_NodeCheckedOnUse ==
    \A k \in Calls :
        /\ ~NodeInRange => (history[k].err.kind = "overflow" /\ history[k].id = Zero)
        /\ NodeInRange => history[k].err.gen # "constant"

\* An instance built with nodeID 1024 has answered two calls, the second of them
\* refused by the node-field check.
C6_Witness ==
    /\ nodeID = FromNat(1024)
    /\ Len(history) = 2
    /\ history[2].err = OverflowError(constant(nodeID), FromNat(1024))


RECURSIVE SumCounts(_)
\* c1 + ... + ck in int64, the counts of the first k calls.
SumCounts(k) == IF k = 0 THEN Zero ELSE Add(SumCounts(k - 1), history[k].n)

\* x + c without wrapping: x is five limbs wide, c a non-negative int64.
WideAdd(x, c) ==
    LET s1 == x[1] + c[1]
        s2 == x[2] + c[2] + (s1 \div Base)
        s3 == x[3] + c[3] + (s2 \div Base)
        s4 == x[4] + c[4] + (s3 \div Base)
    IN <<s1 % Base, s2 % Base, s3 % Base, s4 % Base, x[5] + (s4 \div Base)>>

RECURSIVE WideTotal(_)
\* seed + c1 + ... + ck as a number, counted from the lowest int64 (so that it
\* is never negative) and kept five limbs wide (so that it never wraps).
WideTotal(k) ==
    IF k = 0 THEN <<seed[1], seed[2], seed[3], (seed[4] + (Base \div 2)) % Base, 0>>
    ELSE WideAdd(WideTotal(k - 1), history[k].n)

\* seed + c1 + ... + ck does not pass the largest int64.
WithinInt64(k) == WideTotal(k)[5] = 0

\* The ranges (id - n, id] of two calls of a sequential counter are disjoint.
RangesApart(g, h) == Le(g.id, Sub(h.id, h.n)) \/ Le(h.id, Sub(g.id, g.n))

\* C7 as claimed: for any counts >= 1 and any interleaving of the callers of one
\* sequential counter, the ranges (result - count, result] of any two calls are
\* disjoint, the results are strictly increasing in the order of the atomic adds,
\* and the counter ends at the seed plus the sum of all counts.
C7_Original ==
    /\ \A i, j \in Calls :
        i < j => (RangesApart(history[i], history[j]) /\ Lt(history[i].id, history[j].id))
    /\ value = Add(seed, SumCounts(Len(history)))

\* C7 as amended: the same, as long as the seed plus the sum of all counts does
\* not pass the largest int64 (the counter is not checked for overflow and wraps).
C7_AtomicAdd ==
    WithinInt64(Len(history)) =>
        /\ \A i, j \in Calls :
            i < j => (RangesApart(history[i], history[j])
                      /\ Lt(history[i].id, history[j].id))
        /\ value = Add(seed, SumCounts(Len(history)))

\* Two callers were inside NewIDs at once: the second to add had entered before
\* the first added, so the counter moved under it; nothing wrapped.
C7_Witness ==
    /\ Len(history) = 2
    /\ WithinInt64(2)
    /\ history[2].value0 = history[1].value0
    /\ history[2].id = Add(Add(seed, history[1].n), history[2].n)

\* C8: a sequential counter seeded at s (0, or the lowest int64) never returns an
\* error, and its k-th call returns s + c1 + ... + ck (in int64); the first call
\* returns s + count.
C8_ReturnsSeedPlusCounts ==
    \A k \in Calls :
        /\ history[k].err = Nil
        /\ history[k].id = Add(seed, SumCounts(k))

\* A counter from NewNegSequential has answered two calls, the first with the
\* lowest int64 plus its count.
C8_Witness ==
    /\ seed = MinInt64
    /\ Len(history) = 2
    /\ history[1].n = FromNat(2)
    /\ history[1].id = <<2, 0, 0, Base \div 2>>

\* The wrapped generator returned a value and no error.
InnerOk ==
    \/ arg.gen.type = "repeat"
    \/ (arg.gen.type \in {"constant", "tstamp"} /\ arg.n = One)

\* The value the wrapped generator returned.
InnerV ==
    CASE arg.gen.type = "repeat" -> arg.n
      [] arg.gen.type = "constant" -> arg.gen.c
      [] arg.gen.type = "tstamp" -> clock

\* v < 2^w for an int64 v and w in 0..63
BelowPow2(v, w) == w = W - 1 \/ Lt(v, Shl(One, w))

\* An overflow checker of a width within 0..63 was called, around a generator
\* that returned a value.
CheckerCalled ==
    out.done /\ arg.wrapper = "overflowChecker" /\ arg.bits < W /\ InnerOk

\* C9 as claimed: an overflow checker of width w in 0..63 around a generator that
\* returns v returns v unchanged if v < 2^w and fails with an overflow error, and no
\* value, otherwise, for every int64 v.
C9_Original ==
    CheckerCalled =>
        IF BelowPow2(InnerV, arg.bits)
        THEN out.err = Nil /\ out.v = InnerV
        ELSE out.err.kind = "overflow" /\ out.v = Zero

\* C9 as amended: it returns v unchanged if 0 <= v < 2^w and fails with an
\* overflow error otherwise; a negative v has bit 63 set and is refused by every
\* width in 0..63.
C9_PassesZeroToPow2 ==
    CheckerCalled =>
        IF ~Negative(InnerV) /\ BelowPow2(InnerV, arg.bits)
        THEN out.err = Nil /\ out.v = InnerV
        ELSE out.err.kind = "overflow" /\ out.v = Zero

\* A checker of width 1 was given 2 and refused it.
C9_Witness ==
    /\ CheckerCalled
    /\ arg.bits = 1
    /\ InnerV = FromNat(2)
    /\ out.err = OverflowError(arg.gen, FromNat(2))

\* Bit i of an int64.
BitOf(a, i) == (a[(i \div LimbBits) + 1] \div Pow2(i % LimbBits)) % 2

\* C10: a shifting wrapper with shift b around a generator that returns v for
\* count n returns v << b as a 64-bit value for that count (bit i of the result is
\* bit i - b of v, the bits below b are zero, the bits pushed past bit 63 are
\* lost), and returns v itself when b = 0.
C10_ReturnsShifted ==
    (out.done /\ arg.wrapper = "shifted" /\ InnerOk) =>
        /\ out.err = Nil
        /\ \A i \in 0 .. (W - 1) :
            BitOf(out.v, i) = IF i >= arg.bits THEN BitOf(InnerV, i - arg.bits) ELSE 0
        /\ arg.bits = 0 => out.v = InnerV

\* The generator that returns its count was asked for 2^41 - 1 through a shift
\* of 22 and the wrapper returned the timestamp field with all 41 bits set.
C10_Witness ==
    /\ out.done /\ arg.wrapper = "shifted" /\ arg.gen.type = "repeat"
    /\ arg.bits = TstampShift
    /\ arg.n = Sub(Shl(One, TstampBits), One)
    /\ out.v = <<0, Base - 64, Base - 1, (Base \div 2) - 1>>

\* The error the wrapped generator returned.
InnerErr ==
    IF arg.gen.type = "broken" THEN arg.gen.error ELSE RangeError(arg.gen, One, arg.n)

\* The first error the sub-generators of the Snowflake produce for a call, in
\* the order NewIDs consults them: the timestamp checker, the sequence checker
\* when the tick has not changed, the node checker.
FirstError(h) ==
    LET ts == NewIDs(NewOverflowChecker(TstampBits, NewTimestamp), One, h.reading, h.value0)
        sq == NewIDs(NewOverflowChecker(SeqBits, sequential), h.n, h.reading, h.value0)
        nd == NewIDs(NewOverflowChecker(NodeBits, constant(nodeID)), One, h.reading, h.value0)
    IN IF ts.err # Nil THEN ts.err
       ELSE IF Shl(h.reading, TstampShift) = h.last0 /\ sq.err # Nil THEN sq.err
       ELSE nd.err

\* C11: a wrapper (overflow checker or shift) whose wrapped generator returns an
\* error returns that very error and the value 0, for every count, and a
\* Snowflake NewIDs call returns the first error its sub-generators produce,
\* exactly as the inner checker produced it.
C11_ErrorsPassedUnchanged ==
    /\ (out.done /\ arg.wrapper \in {"overflowChecker", "shifted"} /\ ~InnerOk) =>
        (out.err = InnerErr /\ out.v = Zero)
    /\ \A k \in Calls : history[k].err = FirstError(history[k])

\* A shift of 1 around the broken generator was asked for 4 IDs and returned the
\* broken generator's own error.
C11_Witness ==
    /\ out.done /\ arg.wrapper = "shifted" /\ arg.bits = 1
    /\ arg.gen = broken(BrokenError) /\ arg.n = FromNat(4)
    /\ out.err = BrokenError

\* C12: the constant generator and the clock generator accept only count 1:
\* NewIDs(1) returns the fixed value (respectively the clock reading) and no
\* error, NewIDs(n) for any other n, zero and negative included, returns an
\* error and the value 0.
C12_OnlyCountOne ==
    (out.done /\ arg.wrapper = "plain") =>
        IF arg.n = One
        THEN /\ out.err = Nil
             /\ out.v = (IF arg.gen.type = "constant" THEN arg.gen.c ELSE clock)
        ELSE /\ out.err # Nil /\ out.err.kind = "range"
             /\ out.err.got = arg.n
             /\ out.v = Zero

\* The clock generator was asked for -1 IDs at millisecond 1 and refused.
C12_Witness ==
    /\ out.done /\ arg.wrapper = "plain" /\ arg.gen = NewTimestamp
    /\ clock = One /\ arg.n = Sub(Zero, One)
    /\ out.err = RangeError(NewTimestamp, One, Sub(Zero, One)) /\ out.v = Zero

\* The last call before the k-th that returned an ID (0 if there is none).
PrevOk(k) ==
    LET before == {i \in 1 .. (k - 1) : Ok(history[i])}
    IN IF before = {} THEN 0 ELSE CHOOSE i \in before : \A j \in before : j <= i

\* The timestamp field of an ID: id >> 22.
TstampField(id) == Shr(id, TstampShift)

\* The node field of an ID: (id >> 12) & 1023.
NodeField(id) == BAnd(Shr(id, NodeShift), Sub(Shl(One, NodeBits), One))

\* C13: a Snowflake NewIDs(n) call that reads the same timestamp as the call
\* before it and succeeds has the sequence value of the previous successful call
\* plus n, and the two IDs carry the same timestamp field and the same node field.
C13_SameTickContinues ==
    \A k \in Calls :
        (k > 1 /\ Ok(history[k]) /\ history[k].reading = history[k - 1].reading
               /\ PrevOk(k) # 0) =>
            LET h == history[k]
                g == history[PrevOk(k)]
            IN /\ h.seqNum = Add(g.seqNum, h.n)
               /\ TstampField(h.id) = TstampField(g.id)
               /\ NodeField(h.id) = NodeField(g.id)

\* The clock reading fits the 41-bit timestamp field, so the timestamp read succeeds.
ReadingFits(r) == ~Negative(r) /\ Lt(r, Shl(One, TstampBits))

\* The count is within 1..4096.
CountInRange(n) == Lt(Zero, n) /\ Le(n, Shl(One, SeqBits))

\* C14: a Snowflake NewIDs(n) call that reads a timestamp different from the
\* last-seen one gets the sequence value n - 1 whatever the counter held before,
\* and leaves the counter at n - 1 and lastTimestamp at the new timestamp field;
\* for n within 1..4096 the low 12 bits of the ID returned are n - 1.
C14_NewTickResets ==
    \A p \in Procs :
        (pc[p] = "ret" /\ ReadingFits(loc[p].reading)
                      /\ Shl(loc[p].reading, TstampShift) # loc[p].last0) =>
            /\ loc[p].seqNum = Sub(loc[p].n, One)
            /\ value = Sub(loc[p].n, One)
            /\ lastTimestamp = Shl(loc[p].reading, TstampShift)
            /\ (loc[p].err = Nil /\ CountInRange(loc[p].n)) =>
                    BAnd(loc[p].id, Sub(Shl(One, SeqBits), One)) = Sub(loc[p].n, One)

\* A call for one ID met a new millisecond with the counter at 4096 from the
\* millisecond before, and is about to return with the counter back at 0.
C14_Witness ==
    \E p \in Procs :
        /\ pc[p] = "ret" /\ loc[p].err = Nil
        /\ loc[p].value0 = FromNat(4096) /\ loc[p].n = One
        /\ loc[p].last0 # Zero /\ loc[p].tstamp # loc[p].last0
        /\ loc[p].seqNum = Zero /\ value = Zero

\* C15: on a freshly constructed Snowflake (lastTimestamp = 0) the very first
\* NewIDs(n) call takes the branch for a changed timestamp for every clock
\* reading, a reading of 0 milliseconds included, so its sequence value is n - 1.
C15_FirstCallResets ==
    (Len(history) >= 1 /\ ReadingFits(history[1].reading)) =>
        /\ history[1].newTick
        /\ history[1].seqNum = Sub(history[1].n, One)

\* C16: the mutex is released on every exit path of NewIDs, so under weak
\* fairness every call that was started eventually returns (a value or an
\* error): no caller waits for the lock forever after another call failed.
C16_EveryCallReturns ==
    \A p \in Procs : (pc[p] # "idle") ~> (pc[p] = "idle")

\* A caller that found the mutex held has returned, after the call that held it
\* had failed.
C16_Witness ==
    \E k \in Calls :
        /\ k > 1
        /\ history[k].blocked
        /\ history[k - 1].err # Nil
        /\ mutex = 0

\* C17: with a node ID within 0..1023, a clock that never goes back and every
\* count within 1..4096, the IDs returned by successive successful NewIDs calls
\* (in the order the calls held the lock) are strictly increasing.
C17_IDsStrictlyIncrease ==
    NodeInRange =>
        \A i, j \in Calls :
            (i < j /\ Ok(history[i]) /\ Ok(history[j])) => Lt(history[i].id, history[j].id)

\* Three calls returned IDs: two within one millisecond, the third in a later one.
C17_Witness ==
    /\ NodeInRange
    /\ Len(history) = 3
    /\ \A k \in Calls : Ok(history[k])
    /\ history[1].reading = history[2].reading
    /\ Lt(history[2].reading, history[3].reading)
    /\ history[2].n = FromNat(4095)

\* The clock was set back between the i-th call and the j-th: some call after
\* the i-th and up to the j-th read less than the call before it.
SteppedBack(i, j) ==
    \E k \in (i + 1) .. j : Lt(history[k].reading, history[k - 1].reading)

\* C18: uniqueness does not depend on the clock being monotonic: with counts
\* within 1..4096, the IDs returned after the clock stepped back to a
\* millisecond already used are distinct from every ID returned before.
C18_UniqueDespiteStepBack ==
    \A i, j \in Calls :
        (i < j /\ Ok(history[i]) /\ Ok(history[j]) /\ SteppedBack(i, j)) =>
            Disjoint(history[i], history[j])

\* The call failed in the sequence checker.
SeqOverflow(h) == h.err.kind = "overflow" /\ h.err.gen = "sequential"

\* Every call from the i-th to the j-th read the same millisecond.
SameTick(i, j) == \A k \in i .. j : history[k].reading = history[i].reading

\* The j-th call is the first after the i-th to read another millisecond.
FirstOfNextTick(i, j) ==
    /\ SameTick(i, j - 1)
    /\ history[j].reading # history[i].reading

\* C19: after a call failed with a sequence overflow, every further call with
\* count >= 1 that reads the same timestamp fails with a sequence overflow too
\* (the exhausted tick never yields another ID), and the first call that reads
\* a different timestamp with a count n within 1..4096 succeeds with sequence
\* value n - 1. The recovery is read for an instance that can issue IDs at all:
\* node ID within 0..1023 and a timestamp that fits its 41 bits.
C19_ExhaustedTickRecovers ==
    \A i, j \in Calls :
        (i < j /\ SeqOverflow(history[i])) =>
            /\ (SameTick(i, j) /\ Lt(Zero, history[j].n)) => SeqOverflow(history[j])
            /\ (FirstOfNextTick(i, j) /\ CountInRange(history[j].n)
                    /\ NodeInRange /\ ReadingFits(history[j].reading)) =>
                    (Ok(history[j]) /\ history[j].seqNum = Sub(history[j].n, One))

====
